---- MODULE Spec2Model ----
(***************************************************************************)
(* Model of backend/hello.py: the /webscrape and /clone-website handlers,  *)
(* the JSON record store they share, the identifier normalisation of       *)
(* scrape_website and the response clean-up of clone_website_with_llm.     *)
(*                                                                         *)
(* Python strings are sequences of one-character strings.  Python's None   *)
(* is the value None below, which is different from the empty string <<>>. *)
(***************************************************************************)
EXTENDS Integers, Sequences, FiniteSets, TLC

VARIABLES store, files, req, clone, everSaved,
          nPc, nUrl, nId, nId2,
          vPc, vIn, vOut

vars == <<store, files, req, clone, everSaved,
          nPc, nUrl, nId, nId2, vPc, vIn, vOut>>

mainVars == <<store, files, req, clone, everSaved>>
normVars == <<nPc, nUrl, nId, nId2>>
valVars  == <<vPc, vIn, vOut>>

(***************************************************************************)
(* Python values and str methods                                           *)
(***************************************************************************)
None == <<"<None>">>

\* bool(v) for an Optional[str]: None and "" are falsy
Truthy(v) == v # None /\ v # <<>>

StartsWith(s, p) == Len(s) >= Len(p) /\ SubSeq(s, 1, Len(p)) = p

EndsWith(s, p) == Len(s) >= Len(p) /\ SubSeq(s, Len(s) - Len(p) + 1, Len(s)) = p

\* s.find(p) + 1: the position of the leftmost occurrence of p in s, 0 if there is none
Find(s, p) ==
    LET hits == {i \in 1 .. (Len(s) - Len(p) + 1) : SubSeq(s, i, i + Len(p) - 1) = p}
    IN  IF hits = {} THEN 0 ELSE CHOOSE i \in hits : \A j \in hits : i <= j

RECURSIVE Replace(_, _, _)
\* s.replace(old, new): the non-overlapping occurrences of old, leftmost first, in one pass
Replace(s, old, new) ==
    LET i == Find(s, old)
    IN  IF i = 0 THEN s
        ELSE SubSeq(s, 1, i - 1) \o new \o Replace(SubSeq(s, i + Len(old), Len(s)), old, new)

RECURSIVE Count(_, _)
\* s.count(p): the number of non-overlapping occurrences of p in s
Count(s, p) ==
    LET i == Find(s, p)
    IN  IF i = 0 THEN 0 ELSE 1 + Count(SubSeq(s, i + Len(p), Len(s)), p)

Whitespace == {" ", "\n"}

RECURSIVE LStrip(_)
LStrip(s) == IF s # <<>> /\ Head(s) \in Whitespace THEN LStrip(Tail(s)) ELSE s

RECURSIVE RStrip(_)
RStrip(s) ==
    IF s # <<>> /\ s[Len(s)] \in Whitespace THEN RStrip(SubSeq(s, 1, Len(s) - 1)) ELSE s

\* s.strip()
Strip(s) == RStrip(LStrip(s))

\* s[a:-b] for a, b >= 0 (Python slice: empty when the ends cross)
Slice(s, a, b) == SubSeq(s, a + 1, Len(s) - b)

(***************************************************************************)
(* String literals of the source                                           *)
(***************************************************************************)
HttpsScheme == <<"h", "t", "t", "p", "s", ":", "/", "/">>
HttpScheme  == <<"h", "t", "t", "p", ":", "/", "/">>
WwwPrefix   == <<"w", "w", "w", ".">>
Underscore  == <<"_">>
HashSuffix  == <<"_", "h", "a", "s", "h">>
MaxIdLen    == 100

\* the grave accent character (U+0060), which a TLA+ string cannot hold
Backtick  == "GRAVE"
Fence     == <<Backtick, Backtick, Backtick>>
FenceHtml == Fence \o <<"h", "t", "m", "l">>
Doctype   == <<"<", "!", "D", "O", "C", "T", "Y", "P", "E", " ", "h", "t", "m", "l", ">">>
Newline   == <<"\n">>

(***************************************************************************)
(* Identifier normalisation, scrape_website lines 104-106                  *)
(***************************************************************************)
ReplaceSeparators(s) ==
    Replace(Replace(Replace(Replace(Replace(Replace(s,
        <<"/">>, Underscore), <<".">>, Underscore), <<":">>, Underscore),
        <<"?">>, Underscore), <<"=">>, Underscore), <<"&">>, Underscore)

StripPrefixes(url) ==
    Replace(Replace(Replace(url, HttpsScheme, <<>>), HttpScheme, <<>>), WwwPrefix, <<>>)

\* the suffix is appended, the key is not cut to the limit
TruncateWithoutCut(id) == IF Len(id) > MaxIdLen THEN id \o HashSuffix ELSE id

Truncate(id) == IF Len(id) > MaxIdLen THEN SubSeq(id, 1, MaxIdLen) \o HashSuffix ELSE id

Normalize(url) == Truncate(ReplaceSeparators(StripPrefixes(url)))

(***************************************************************************)
(* Response clean-up, clone_website_with_llm lines 311-318                 *)
(***************************************************************************)
StripFence(text) ==
    IF StartsWith(text, FenceHtml) /\ EndsWith(text, Fence)
    THEN Strip(Slice(text, 7, 3))
    ELSE IF StartsWith(text, Fence) /\ EndsWith(text, Fence)
         THEN Strip(Slice(text, 3, 3))
         ELSE text

EnsureDoctype(text) ==
    IF ~StartsWith(Strip(text), Doctype) THEN Doctype \o Newline \o text ELSE text

ValidateCloneResponse(text) == EnsureDoctype(StripFence(text))

(***************************************************************************)
(* The scrape and clone handlers                                           *)
(***************************************************************************)
NumRequests == 2

Requests == 1 .. NumRequests

\* URLs a client may post to /webscrape
UrlA == HttpScheme \o <<"a", ".", "b">>
UrlC == HttpsScheme \o WwwPrefix \o <<"c">>
Urls == {UrlA, UrlC}

\* ids a client may post to /clone-website: the scraped ones and one never scraped
UnknownId == <<"z">>
CloneIds == {Normalize(u) : u \in Urls} \cup {UnknownId}

\* What a 2xx response holds, as BeautifulSoup reads it: res.text, soup.title,
\* soup.title.string and the src/href values of the img, link and script elements.
EmptyPage == [text |-> <<>>, hasTitle |-> FALSE, titleString |-> None,
              img |-> <<>>, link |-> <<>>, script |-> <<>>]
FullPage  == [text |-> <<"<", "t", ">">>, hasTitle |-> TRUE, titleString |-> <<"T">>,
              img |-> << <<"#", "f">>, <<"i">>, <<"i">> >>,
              link |-> << <<"s">> >>,
              script |-> << <<"d", "a", "t", "a", ":">> >>]
Pages == {EmptyPage, FullPage}

\* a non-2xx status, which raise_for_status() raises on
ErrorStatuses == {404}

\* texts the model may answer with
PlainAnswer  == Doctype \o <<"x">>
FencedAnswer == FenceHtml \o Newline \o Doctype \o <<"x">> \o Newline \o Fence
SpacedAnswer == Newline \o Doctype \o <<"x">>
ModelTexts == {PlainAnswer, FencedAnswer, SpacedAnswer}

TitleNotFound == <<"T", "i", "t", "l", "e", " ", "n", "o", "t", " ", "f", "o", "u", "n", "d">>
DataPrefix == <<"d", "a", "t", "a", ":">>
HashPrefix == <<"#">>
PublicScreenshots == <<"/", "p", "u", "b", "l", "i", "c", "/", "s", "c", "r", "e", "e",
                       "n", "s", "h", "o", "t", "s", "/">>
ScreenshotsDir == <<"p", "u", "b", "l", "i", "c", "/", "s", "c", "r", "e", "e",
                    "n", "s", "h", "o", "t", "s">>
PngSuffix == <<".", "p", "n", "g">>

\* str(base_url_parsed.join(ref)): the resolved URL, kept as the pair it is computed from
JoinUrl(base, ref) == [base |-> base, ref |-> ref]

RECURSIVE ResolveAll(_, _)
\* one asset loop of lines 134-157: data: and # references are skipped
ResolveAll(base, refs) ==
    IF refs = <<>> THEN <<>>
    ELSE IF StartsWith(Head(refs), DataPrefix) \/ StartsWith(Head(refs), HashPrefix)
         THEN ResolveAll(base, Tail(refs))
         ELSE <<JoinUrl(base, Head(refs))>> \o ResolveAll(base, Tail(refs))

ScrapeAssets(url, page) ==
    [images      |-> ResolveAll(url, page.img),
     stylesheets |-> ResolveAll(url, page.link),
     scripts     |-> ResolveAll(url, page.script)]

NoAssets == [images |-> <<>>, stylesheets |-> <<>>, scripts |-> <<>>]

PageTitle(page) == IF page.hasTitle THEN page.titleString ELSE TitleNotFound

ScreenshotFile(id) == ScreenshotsDir \o <<"/">> \o id \o PngSuffix

RelativeScreenshotPath(id) == PublicScreenshots \o id \o PngSuffix

\* os.path.join(os.getcwd(), path.lstrip('/')), relative to the working directory
RECURSIVE LStripSlash(_)
LStripSlash(s) == IF s # <<>> /\ Head(s) = "/" THEN LStripSlash(Tail(s)) ELSE s

NoEntry == [id |-> None, url |-> None, title |-> None, html_content |-> None,
            screenshot_path |-> None, assets |-> NoAssets]

NoResponse == [kind |-> "none", status_code |-> 0, cause |-> "none"]

EmptyStore == [k \in {} |-> NoEntry]

IdleRequest ==
    [pc |-> "idle", url |-> <<>>, url_id |-> <<>>, scraped_data |-> EmptyStore,
     html_content |-> None, title |-> None, assets |-> NoAssets,
     screenshot_path |-> None, relative_screenshot_path |-> None,
     playwright |-> "none", browser |-> "none", failedAt |-> "none",
     new_scraped_entry |-> NoEntry, response |-> NoResponse]

NoClone == [url_id |-> None, status_code |-> 0, found |-> FALSE, data |-> NoEntry,
            prompt |-> <<>>, modelCalled |-> FALSE, cloned_html |-> None,
            afterScrape |-> FALSE]

\* scraped_data[url_id] = entry
Put(data, id, entry) ==
    [k \in DOMAIN data \cup {id} |-> IF k = id THEN entry ELSE data[k]]

\* HTTPException(status_code, detail) raised by an except clause of scrape_website
HttpError(status, cause) == [kind |-> "error", status_code |-> status, cause |-> cause]

\* the summary scrape_website returns
Summary(r) ==
    [kind |-> "ok", status_code |-> 200, cause |-> "none",
     success |-> TRUE, url |-> r.url, title |-> r.title, id |-> r.url_id,
     html_content_length |-> Len(r.html_content),
     screenshot_url |-> r.relative_screenshot_path,
     assets_count |-> [images |-> Len(r.assets.images),
                       stylesheets |-> Len(r.assets.stylesheets),
                       scripts |-> Len(r.assets.scripts), links |-> 0]]

\* ScrapedData(...).dict()
NewScrapedEntry(r) ==
    [id |-> r.url_id, url |-> r.url, title |-> r.title,
     html_content |-> r.html_content,
     screenshot_path |-> r.relative_screenshot_path, assets |-> r.assets]

\* clone_website_with_llm is an async function that never awaits: once it runs,
\* no other handler resumes until it has handed back its response.
EventLoopFree == clone = NoClone

\* The handler is left: its locals are gone, what stays is what it answered,
\* the record it saved and the state it left the browser in.
Finished(r, pc, response) ==
    [IdleRequest EXCEPT !.pc = pc, !.url = r.url, !.url_id = r.url_id,
                        !.failedAt = r.failedAt, !.playwright = r.playwright,
                        !.browser = r.browser, !.response = response]

\* the driver is stopped, a browser it launched is left running
PlaywrightExitLeavingBrowser(r) == [r EXCEPT !.playwright = "stopped"]

\* Leaving the `async with async_playwright()` block stops the Playwright driver,
\* and with it every browser the driver launched that is still running.
PlaywrightExit(r) ==
    [r EXCEPT !.playwright = "stopped",
              !.browser = IF @ = "open" THEN "closed" ELSE @]

\* `except Exception` of line 218 for an exception raised inside the with block
UnexpectedError(r, where) ==
    Finished([PlaywrightExit(r) EXCEPT !.failedAt = where], "raised",
             HttpError(500, "Exception"))

\* lines 104-108: the id is computed and the whole store is loaded.
\* Requests are numbered in their order of arrival.
StartScrape(i, url) ==
    /\ EventLoopFree
    /\ req[i].pc = "idle"
    /\ \A j \in Requests : j < i => req[j].pc # "idle"
    /\ req' = [req EXCEPT ![i] = [IdleRequest EXCEPT
                  !.pc = "fetch", !.url = url, !.url_id = Normalize(url),
                  !.scraped_data = store]]
    /\ UNCHANGED <<store, files, clone, everSaved, normVars, valVars>>

\* the handler of a failed fetch stores a record without content and saves the store
FetchTransportErrorSavingPartial(i) ==
    /\ EventLoopFree
    /\ req[i].pc = "fetch"
    /\ store' = Put(req[i].scraped_data, req[i].url_id,
                    [NoEntry EXCEPT !.id = req[i].url_id, !.url = req[i].url])
    /\ req' = [req EXCEPT ![i] = Finished([req[i] EXCEPT !.failedAt = "fetch"], "raised",
                                           HttpError(500, "RequestError"))]
    /\ UNCHANGED <<files, clone, everSaved, normVars, valVars>>

\* lines 113 and 206-211: client.get raises httpx.RequestError
FetchTransportError(i) ==
    /\ EventLoopFree
    /\ req[i].pc = "fetch"
    /\ req' = [req EXCEPT ![i] = Finished([req[i] EXCEPT !.failedAt = "fetch"], "raised",
                                           HttpError(500, "RequestError"))]
    /\ UNCHANGED <<store, files, clone, everSaved, normVars, valVars>>

\* lines 114 and 212-217: raise_for_status raises httpx.HTTPStatusError
FetchStatusError(i, status) ==
    /\ EventLoopFree
    /\ req[i].pc = "fetch"
    /\ req' = [req EXCEPT ![i] = Finished([req[i] EXCEPT !.failedAt = "fetch"], "raised",
                                           HttpError(status, "HTTPStatusError"))]
    /\ UNCHANGED <<store, files, clone, everSaved, normVars, valVars>>

\* lines 116-117 and 218-220: parsing raises
ParseError(i) ==
    /\ EventLoopFree
    /\ req[i].pc = "fetch"
    /\ req' = [req EXCEPT ![i] = Finished([req[i] EXCEPT !.failedAt = "parse"], "raised",
                                           HttpError(500, "Exception"))]
    /\ UNCHANGED <<store, files, clone, everSaved, normVars, valVars>>

\* lines 113-164: a 2xx response; title, assets and screenshot paths are computed
FetchOk(i, page) ==
    /\ EventLoopFree
    /\ req[i].pc = "fetch"
    /\ req' = [req EXCEPT ![i].pc = "launch",
                  ![i].html_content = page.text,
                  ![i].title = PageTitle(page),
                  ![i].assets = ScrapeAssets(req[i].url, page),
                  ![i].screenshot_path = ScreenshotFile(req[i].url_id),
                  ![i].relative_screenshot_path = RelativeScreenshotPath(req[i].url_id),
                  ![i].playwright = "active"]
    /\ UNCHANGED <<store, files, clone, everSaved, normVars, valVars>>

\* line 165
LaunchOk(i) ==
    /\ EventLoopFree
    /\ req[i].pc = "launch"
    /\ req' = [req EXCEPT ![i].pc = "new_page", ![i].browser = "open"]
    /\ UNCHANGED <<store, files, clone, everSaved, normVars, valVars>>

\* line 165 raises: outside the inner try, so the outer handler of line 218 runs
LaunchFail(i) ==
    /\ EventLoopFree
    /\ req[i].pc = "launch"
    /\ req' = [req EXCEPT ![i] = UnexpectedError(req[i], "launch")]
    /\ UNCHANGED <<store, files, clone, everSaved, normVars, valVars>>

\* line 166
NewPageOk(i) ==
    /\ EventLoopFree
    /\ req[i].pc = "new_page"
    /\ req' = [req EXCEPT ![i].pc = "goto"]
    /\ UNCHANGED <<store, files, clone, everSaved, normVars, valVars>>

\* line 166 raises: outside the inner try, so its finally does not run
NewPageFail(i) ==
    /\ EventLoopFree
    /\ req[i].pc = "new_page"
    /\ req' = [req EXCEPT ![i] = UnexpectedError(req[i], "new_page")]
    /\ UNCHANGED <<store, files, clone, everSaved, normVars, valVars>>

\* line 168
GotoOk(i) ==
    /\ EventLoopFree
    /\ req[i].pc = "goto"
    /\ req' = [req EXCEPT ![i].pc = "screenshot"]
    /\ UNCHANGED <<store, files, clone, everSaved, normVars, valVars>>

\* lines 171-175: the except clause of the inner try
CaptureFailed(r, where) ==
    [r EXCEPT !.pc = "close", !.failedAt = where,
              !.screenshot_path = None, !.relative_screenshot_path = None]

\* line 168 raises (navigation error or the 90 s timeout)
GotoFail(i) ==
    /\ EventLoopFree
    /\ req[i].pc = "goto"
    /\ req' = [req EXCEPT ![i] = CaptureFailed(req[i], "goto")]
    /\ UNCHANGED <<store, files, clone, everSaved, normVars, valVars>>

\* line 169: the image is written to the screenshots directory
ScreenshotOk(i) ==
    /\ EventLoopFree
    /\ req[i].pc = "screenshot"
    /\ files' = files \cup {req[i].screenshot_path}
    /\ req' = [req EXCEPT ![i].pc = "close"]
    /\ UNCHANGED <<store, clone, everSaved, normVars, valVars>>

\* line 169 raises
ScreenshotFail(i) ==
    /\ EventLoopFree
    /\ req[i].pc = "screenshot"
    /\ req' = [req EXCEPT ![i] = CaptureFailed(req[i], "screenshot")]
    /\ UNCHANGED <<store, files, clone, everSaved, normVars, valVars>>

\* lines 176-177: finally: await browser.close()
CloseBrowser(i) ==
    /\ EventLoopFree
    /\ req[i].pc = "close"
    /\ req' = [req EXCEPT ![i].pc = "save", ![i].browser = "closed"]
    /\ UNCHANGED <<store, files, clone, everSaved, normVars, valVars>>

\* lines 188-189: the record goes into the store loaded at line 108, which is saved whole
SavedStore(r) == Put(r.scraped_data, r.url_id, NewScrapedEntry(r))

\* lines 179-205: the with block is left, the record assembled, the store saved
SaveAndReturn(i) ==
    /\ EventLoopFree
    /\ req[i].pc = "save"
    /\ store' = SavedStore(req[i])
    /\ everSaved' = everSaved \cup {req[i].url_id}
    /\ req' = [req EXCEPT ![i] =
                  [Finished(PlaywrightExit(req[i]), "returned", Summary(req[i]))
                      EXCEPT !.new_scraped_entry = NewScrapedEntry(req[i])]]
    /\ UNCHANGED <<files, clone, normVars, valVars>>

(***************************************************************************)
(* clone_website_with_llm: the handler never awaits, so it runs as one step *)
(***************************************************************************)
\* lines 241-243
ActualScreenshotFilePath(data) ==
    IF Truthy(data.screenshot_path) THEN LStripSlash(data.screenshot_path) ELSE None

\* line 245
InsufficientData(data) ==
    ~Truthy(data.html_content) /\ ~Truthy(ActualScreenshotFilePath(data))

\* lines 257-293: the content blocks of the user message, in order
UserMessageContent(data) ==
    (IF Truthy(data.html_content)
        THEN << [type |-> "text", about |-> "html", html |-> data.html_content] >>
        ELSE << [type |-> "text", about |-> "no_html", html |-> None] >>)
    \o (IF Truthy(ActualScreenshotFilePath(data))
           /\ ActualScreenshotFilePath(data) \in files
        THEN << [type |-> "image", about |-> "screenshot", html |-> None],
                [type |-> "text", about |-> "screenshot_label", html |-> None] >>
        ELSE << [type |-> "text", about |-> "no_screenshot", html |-> None] >>)
    \o << [type |-> "text", about |-> "instruction", html |-> None] >>

\* ids returned so far by a successful scrape
ReturnedIds == {req[i].url_id : i \in {j \in Requests : req[j].pc = "returned"}}

\* lines 234-235
CloneNotFound(id) ==
    /\ EventLoopFree
    /\ id \notin DOMAIN store
    /\ clone' = [NoClone EXCEPT !.url_id = id, !.status_code = 404,
                                !.afterScrape = id \in ReturnedIds]
    /\ UNCHANGED <<store, files, req, everSaved, normVars, valVars>>

\* lines 237-246
CloneInsufficient(id) ==
    /\ EventLoopFree
    /\ id \in DOMAIN store
    /\ InsufficientData(store[id])
    /\ clone' = [NoClone EXCEPT !.url_id = id, !.status_code = 400, !.found = TRUE,
                                !.data = store[id],
                                !.afterScrape = id \in ReturnedIds]
    /\ UNCHANGED <<store, files, req, everSaved, normVars, valVars>>

\* lines 248-308 and 321-323: client.messages.create raises
CloneModelFailure(id) ==
    /\ EventLoopFree
    /\ id \in DOMAIN store
    /\ ~InsufficientData(store[id])
    /\ clone' = [NoClone EXCEPT !.url_id = id, !.status_code = 500, !.found = TRUE,
                                !.data = store[id],
                                !.prompt = UserMessageContent(store[id]),
                                !.modelCalled = TRUE,
                                !.afterScrape = id \in ReturnedIds]
    /\ UNCHANGED <<store, files, req, everSaved, normVars, valVars>>

\* lines 248-320: the model answers with text, which is cleaned up and returned
CloneOk(id, text) ==
    /\ EventLoopFree
    /\ id \in DOMAIN store
    /\ ~InsufficientData(store[id])
    /\ clone' = [NoClone EXCEPT !.url_id = id, !.status_code = 200, !.found = TRUE,
                                !.data = store[id],
                                !.prompt = UserMessageContent(store[id]),
                                !.modelCalled = TRUE,
                                !.cloned_html = ValidateCloneResponse(text),
                                !.afterScrape = id \in ReturnedIds]
    /\ UNCHANGED <<store, files, req, everSaved, normVars, valVars>>

(***************************************************************************)
(* The server: scrape requests interleave at their awaits                  *)
(***************************************************************************)
Init ==
    /\ store = EmptyStore
    /\ files = {}
    /\ req = [i \in Requests |-> IdleRequest]
    /\ clone = NoClone
    /\ everSaved = {}
    /\ nPc = "off" /\ nUrl = <<>> /\ nId = <<>> /\ nId2 = <<>>
    /\ vPc = "off" /\ vIn = <<>> /\ vOut = <<>>

\* the clone handler's response is handed back
CloneReturn ==
    /\ clone # NoClone
    /\ clone' = NoClone
    /\ UNCHANGED <<store, files, req, everSaved, normVars, valVars>>

Next ==
    \/ \E i \in Requests, url \in Urls : StartScrape(i, url)
    \/ \E i \in Requests : FetchTransportError(i)
    \/ \E i \in Requests, st \in ErrorStatuses : FetchStatusError(i, st)
    \/ \E i \in Requests : ParseError(i)
    \/ \E i \in Requests, page \in Pages : FetchOk(i, page)
    \/ \E i \in Requests : LaunchOk(i)
    \/ \E i \in Requests : LaunchFail(i)
    \/ \E i \in Requests : NewPageOk(i)
    \/ \E i \in Requests : NewPageFail(i)
    \/ \E i \in Requests : GotoOk(i)
    \/ \E i \in Requests : GotoFail(i)
    \/ \E i \in Requests : ScreenshotOk(i)
    \/ \E i \in Requests : ScreenshotFail(i)
    \/ \E i \in Requests : CloseBrowser(i)
    \/ \E i \in Requests : SaveAndReturn(i)
    \/ \E id \in CloneIds : CloneNotFound(id)
    \/ \E id \in CloneIds : CloneInsufficient(id)
    \/ \E id \in CloneIds : CloneModelFailure(id)
    \/ \E id \in CloneIds, text \in ModelTexts : CloneOk(id, text)
    \/ CloneReturn

Spec == Init /\ [][Next]_vars

(***************************************************************************)
(* The normalisation on its own: a URL is normalised, and the key it       *)
(* yields is normalised again                                              *)
(***************************************************************************)
MaxUrlParts == 3

UrlChunks == {HttpsScheme, HttpScheme, WwwPrefix, <<"a">>, <<"/">>, <<"h", "t">>,
              <<"t", "p", ":", "/", "/">>, <<"?", "b", "=", "1", "&">>}

RECURSIVE Concats(_, _)
\* the concatenations of at most n members of chunks
Concats(chunks, n) ==
    IF n = 0 THEN {<<>>}
    ELSE Concats(chunks, n - 1)
         \cup {c \o t : c \in chunks, t \in Concats(chunks, n - 1)}

\* a tail of k letters, to bring a URL up to and over the length limit
Padding(k) == [j \in 1 .. k |-> "x"]
PadLengths == {0, MaxIdLen - 1, MaxIdLen + 1}

ExampleUrl == HttpsScheme \o WwwPrefix
              \o <<"e", "x", "a", "m", "p", "l", "e", ".", "c", "o", "m", "/", "a",
                   "?", "b", "=", "1">>
ExampleId == <<"e", "x", "a", "m", "p", "l", "e", "_", "c", "o", "m", "_", "a",
               "_", "b", "_", "1">>

NormalizeInputs ==
    {ExampleUrl} \cup {u \o Padding(k) : u \in Concats(UrlChunks, MaxUrlParts), k \in PadLengths}

MainIdle ==
    /\ store = EmptyStore
    /\ files = {}
    /\ req = [i \in Requests |-> IdleRequest]
    /\ clone = NoClone
    /\ everSaved = {}

InitNormalize ==
    /\ MainIdle
    /\ nPc = "in" /\ nUrl \in NormalizeInputs /\ nId = <<>> /\ nId2 = <<>>
    /\ vPc = "off" /\ vIn = <<>> /\ vOut = <<>>

NormalizeUrl ==
    /\ nPc = "in"
    /\ nId' = Normalize(nUrl)
    /\ nPc' = "once"
    /\ UNCHANGED <<nUrl, nId2, mainVars, valVars>>

NormalizeAgain ==
    /\ nPc = "once"
    /\ nId2' = Normalize(nId)
    /\ nPc' = "twice"
    /\ UNCHANGED <<nUrl, nId, mainVars, valVars>>

NextNormalize == NormalizeUrl \/ NormalizeAgain

SpecNormalize == InitNormalize /\ [][NextNormalize]_vars

(***************************************************************************)
(* The response clean-up on its own: one raw model answer is cleaned up     *)
(***************************************************************************)
MaxAnswerParts == 4

AnswerChunks == {Fence, <<"h", "t", "m", "l">>, Newline, <<" ">>, Doctype, <<"<", "p", ">">>}

ValidateInputs == Concats(AnswerChunks, MaxAnswerParts)

InitValidate ==
    /\ MainIdle
    /\ nPc = "off" /\ nUrl = <<>> /\ nId = <<>> /\ nId2 = <<>>
    /\ vPc = "in" /\ vIn \in ValidateInputs /\ vOut = <<>>

ValidateAnswer ==
    /\ vPc = "in"
    /\ vOut' = ValidateCloneResponse(vIn)
    /\ vPc' = "out"
    /\ UNCHANGED <<vIn, mainVars, normVars>>

NextValidate == ValidateAnswer

SpecValidate == InitValidate /\ [][NextValidate]_vars

(***************************************************************************)
(* Properties                                                              *)
(***************************************************************************)
Completed(i) == req[i].pc \in {"returned", "raised"}

Returns(i) == req[i].pc = "save" /\ req'[i].pc = "returned"

Raises(i) == req[i].pc # "raised" /\ req'[i].pc = "raised"

\* C1: an id that has once been persisted in the store is in the store in every
\* later state, whatever the interleaving of the scrape requests.
C1_PersistedIdsStay == everSaved \subseteq DOMAIN store

\* C2: a scrape that fails at the fetch (transport error, non-2xx) or at parsing
\* writes nothing: the step in which it raises leaves the store, the screenshot
\* files and the set of persisted ids as they were, and the store only ever
\* changes in a step in which a request returns successfully.
C2_FailedScrapeWritesNothing ==
    [][ /\ \A i \in Requests :
              Raises(i) /\ req'[i].failedAt \in {"fetch", "parse"}
                  => /\ store' = store
                     /\ files' = files
                     /\ everSaved' = everSaved
                     /\ req'[i].response.kind = "error"
        /\ store' # store => \E i \in Requests : Returns(i) ]_vars

\* C2 witness: a request has failed at the fetch or at parsing while the store
\* held records.
C2_Witness ==
    \E i \in Requests :
        /\ req[i].pc = "raised"
        /\ req[i].failedAt \in {"fetch", "parse"}
        /\ DOMAIN store # {}

\* C3: once the markup is fetched, a failure anywhere in the screenshot step
\* (launch, page creation, navigation, capture) never fails the scrape: the
\* request returns success, its record has html_content and no screenshot_path,
\* and the summary has no screenshot URL.
C3_ScreenshotIsBestEffort ==
    \A i \in Requests :
        Completed(i) /\ req[i].failedAt \in {"launch", "new_page", "goto", "screenshot"}
            => /\ req[i].pc = "returned"
               /\ req[i].response.kind = "ok"
               /\ req[i].response.success
               /\ req[i].response.screenshot_url = None
               /\ req[i].new_scraped_entry.html_content # None
               /\ req[i].new_scraped_entry.screenshot_path = None

\* C4: right after a successful scrape of url u with id k the store holds under k
\* the record assembled by this scrape, whole; the store has as many entries as
\* distinct ids were scraped successfully so far; every record's id is its key.
C4_StoreAfterScrape ==
    [][ \A i \in Requests :
            Returns(i)
                => /\ req[i].url_id \in DOMAIN store'
                   /\ store'[req[i].url_id] =
                          [id |-> Normalize(req[i].url), url |-> req[i].url,
                           title |-> req[i].title,
                           html_content |-> req[i].html_content,
                           screenshot_path |-> req[i].relative_screenshot_path,
                           assets |-> req[i].assets]
                   /\ Cardinality(DOMAIN store') = Cardinality(everSaved')
                   /\ \A k \in DOMAIN store' : store'[k].id = k ]_vars

\* C5: a clone request fails with 404 exactly when the id is no key of the store;
\* for an id in the store it fails with 400 exactly when html_content and
\* screenshot_path are both absent; neither failure calls the model, and a record
\* with one of the two fields present goes on to the model call.
C5_CloneErrors ==
    clone # NoClone
        => /\ clone.status_code = 404 <=> ~clone.found
           /\ clone.found
                 => (clone.status_code = 400
                        <=> /\ clone.data.html_content = None
                            /\ clone.data.screenshot_path = None)
           /\ clone.status_code \in {404, 400} => ~clone.modelCalled
           /\ (clone.found /\ (clone.data.html_content # None
                                \/ clone.data.screenshot_path # None))
                 => clone.modelCalled

\* C7: a clone request on the id a successful scrape returned raises neither 404
\* nor 400, and when the model answers with text the result begins with the
\* document type declaration.
C7_ScrapeThenClone ==
    clone.afterScrape
        => /\ clone.status_code \notin {404, 400}
           /\ clone.status_code = 200 => StartsWith(clone.cloned_html, Doctype)

C8_NormalizeIdempotent ==
    /\ nPc = "twice" => nId2 = nId
    /\ nPc \in {"once", "twice"} /\ nUrl = ExampleUrl => nId = ExampleId

\* C8 witness: a key that was truncated and given the suffix has been normalised again.
C8_Witness == nPc = "twice" /\ Len(nUrl) > MaxIdLen /\ EndsWith(nId, HashSuffix)

\* the operator C9 describes: only a leading scheme and a leading www. are removed
ReferenceNormalize(url) ==
    LET noScheme == IF StartsWith(url, HttpsScheme)
                        THEN SubSeq(url, Len(HttpsScheme) + 1, Len(url))
                    ELSE IF StartsWith(url, HttpScheme)
                        THEN SubSeq(url, Len(HttpScheme) + 1, Len(url))
                    ELSE url
        noWww == IF StartsWith(noScheme, WwwPrefix)
                     THEN SubSeq(noScheme, Len(WwwPrefix) + 1, Len(noScheme))
                     ELSE noScheme
        id == ReplaceSeparators(noWww)
    IN  IF Len(id) > MaxIdLen THEN SubSeq(id, 1, MaxIdLen) \o HashSuffix ELSE id

\* C9: the normalised id is the reference operator's result: a scheme or a www.
\* that is not at the start of the URL is not removed.
C9_NormalizeIsReference ==
    nPc \in {"once", "twice"} => nId = ReferenceNormalize(nUrl)

\* the text is a fenced code block, whatever the whitespace around it
Fenced(text) ==
    /\ Len(Strip(text)) >= 2 * Len(Fence)
    /\ StartsWith(Strip(text), Fence)
    /\ EndsWith(Strip(text), Fence)

\* C6: the cleaned-up text begins with the document type declaration; a text that
\* carries the declaration is not given another and a text without it gets
\* exactly one; a text that was a fenced code block holds no fence marker.
C6_ValidatedAnswer ==
    vPc = "out"
        => /\ StartsWith(vOut, Doctype)
           /\ Count(vOut, Doctype) = (IF Count(vIn, Doctype) = 0 THEN 1 ELSE Count(vIn, Doctype))
           /\ Fenced(vIn) => Count(vOut, Fence) = 0

====
